---------------------------- MODULE Spec2Model ----------------------------
(***************************************************************************)
(* Model of metadata_extractor.py: the PhotoMetadataExtractor class and    *)
(* the interactive main().                                                 *)
(*                                                                         *)
(* Python values are records [ty, v].  A dict is a sequence of             *)
(* [key, val] entries with distinct keys, in insertion order.  A bytes     *)
(* object is a sequence of one-byte tokens.  A float                       *)
(* that holds decimal degrees is kept exactly, as a sign and a count of    *)
(* 1/3600 degree (IEEE rounding is not modelled, the sign of zero is).     *)
(***************************************************************************)
EXTENDS Integers, Sequences, FiniteSets, TLC

(***************************************************************************)
(* Python values                                                           *)
(***************************************************************************)
PyNone == [ty |-> "none", v |-> 0]
PyInt(n) == [ty |-> "int", v |-> n]
PyRational(n) == [ty |-> "rational", v |-> n]
PyFloat(neg, mag) == [ty |-> "float", v |-> [neg |-> neg, mag |-> mag]]
PyStr(s) == [ty |-> "str", v |-> s]
PyBytes(s) == [ty |-> "bytes", v |-> s]
PyTuple(elems) == [ty |-> "tuple", v |-> elems]
PyDict(entries) == [ty |-> "dict", v |-> entries]

Entry(k, x) == [key |-> k, val |-> x]
EmptyDict == <<>>

DictKeys(d) == {d[i].key : i \in 1..Len(d)}
\* equality of two Python values, the type compared first
PyEq(a, b) == a.ty = b.ty /\ a.v = b.v
IsStr(x, s) == x.ty = "str" /\ x.v = s

DictHas(d, k) == \E i \in 1..Len(d) : PyEq(d[i].key, k)
DictIndex(d, k) == CHOOSE i \in 1..Len(d) : PyEq(d[i].key, k)
DictGet(d, k, default) == IF DictHas(d, k) THEN d[DictIndex(d, k)].val ELSE default
DictSet(d, k, x) ==
    IF DictHas(d, k)
    THEN [d EXCEPT ![DictIndex(d, k)] = Entry(k, x)]
    ELSE Append(d, Entry(k, x))

\* the float whose value is k/3600
FloatOf(k) == PyFloat(k < 0, IF k < 0 THEN 0 - k ELSE k)
\* unary minus on a float flips the sign bit, also of zero
NegFloat(x) == PyFloat(~x.v.neg, x.v.mag)

\* repr() of a float: a one-digit decimal where that is exact, else the
\* exact fraction
FloatStr(x) ==
    (IF x.v.neg THEN "-" ELSE "") \o
    (IF x.v.mag % 360 = 0
     THEN ToString(x.v.mag \div 3600) \o "." \o ToString((x.v.mag % 3600) \div 360)
     ELSE ToString(x.v.mag) \o "/3600")

\* the bytes the model uses: two ASCII letters and one byte that is not
\* valid UTF-8
ByteTokens == {"h", "i", "\\xff"}
ByteOrd(b) == CASE b = "h" -> 104 [] b = "i" -> 105 [] OTHER -> 255
ByteIsUtf8(b) == b # "\\xff"

RECURSIVE ConcatBytes(_)
ConcatBytes(bs) == IF Len(bs) = 0 THEN "" ELSE bs[1] \o ConcatBytes(Tail(bs))

RECURSIVE Repr(_), JoinRepr(_)
JoinRepr(elems) ==
    IF Len(elems) = 0 THEN ""
    ELSE IF Len(elems) = 1 THEN Repr(elems[1])
    ELSE Repr(elems[1]) \o ", " \o JoinRepr(Tail(elems))

RECURSIVE JoinEntries(_)
JoinEntries(d) ==
    IF Len(d) = 0 THEN ""
    ELSE Repr(d[1].key) \o ": " \o Repr(d[1].val) \o
         (IF Len(d) = 1 THEN "" ELSE ", " \o JoinEntries(Tail(d)))

Repr(x) ==
    CASE x.ty = "none" -> "None"
      [] x.ty = "int" -> ToString(x.v)
      [] x.ty = "rational" -> ToString(x.v) \o ".0"
      [] x.ty = "float" -> FloatStr(x)
      [] x.ty = "str" -> "'" \o x.v \o "'"
      [] x.ty = "bytes" -> "b'" \o ConcatBytes(x.v) \o "'"
      [] x.ty = "tuple" ->
            IF Len(x.v) = 1 THEN "(" \o Repr(x.v[1]) \o ",)"
            ELSE "(" \o JoinRepr(x.v) \o ")"
      [] x.ty = "dict" -> "{" \o JoinEntries(x.v) \o "}"

\* str(x): a str is itself, anything else is its repr
Str(x) == IF x.ty = "str" THEN x.v ELSE Repr(x)

IsNumber(x) == x.ty \in {"int", "rational", "float"}
\* the value of a number in units of 1/3600
Units(x) ==
    IF x.ty = "float" THEN (IF x.v.neg THEN 0 - x.v.mag ELSE x.v.mag)
    ELSE x.v * 3600

(***************************************************************************)
(* convert_to_degrees                                                      *)
(***************************************************************************)
Ok(d) == [data |-> d, raised |-> FALSE, msg |-> ""]
Raised(d, m) == [data |-> d, raised |-> TRUE, msg |-> m]

\* the number of items "d, m, s = value" gets to unpack; -1: not iterable
ItemCount(value) ==
    IF value.ty \in {"tuple", "str", "bytes", "dict"} THEN Len(value.v) ELSE 0 - 1
\* item i of the iteration: of a tuple its element, of a dict its key, of
\* a bytes object the int of the byte, of a str a one-character str
Item(value, i) ==
    CASE value.ty = "tuple" -> value.v[i]
      [] value.ty = "dict" -> value.v[i].key
      [] value.ty = "bytes" -> PyInt(ByteOrd(value.v[i]))
      [] OTHER -> PyStr("c")

\* the try body: unpack, then d + (m / 60.0) + (s / 3600.0)
ConvertBody(value) ==
    IF ItemCount(value) < 0
        THEN Raised(PyNone, "cannot unpack non-iterable " \o value.ty \o " object")
    ELSE IF ItemCount(value) < 3
        THEN Raised(PyNone, "not enough values to unpack (expected 3, got "
                            \o ToString(ItemCount(value)) \o ")")
    ELSE IF ItemCount(value) > 3
        THEN Raised(PyNone, "too many values to unpack (expected 3)")
    ELSE IF \E i \in 1..3 : ~IsNumber(Item(value, i))
        THEN Raised(PyNone, "unsupported operand type(s)")
    ELSE Ok(FloatOf(Units(Item(value, 1)) + (Units(Item(value, 2)) \div 60)
                    + (Units(Item(value, 3)) \div 3600)))

\* a slip in the divisors: minutes over 3600, seconds over 60
ConvertSwappedDivisors(value) ==
    IF ConvertBody(value).raised THEN Ok(PyStr(Str(value)))
    ELSE Ok(FloatOf(Units(Item(value, 1)) + (Units(Item(value, 2)) \div 3600)
                    + (Units(Item(value, 3)) \div 60)))

\* convert_to_degrees(value): the bare except turns every failure of the
\* body into str(value)
convert_to_degrees(value) ==
    IF ConvertBody(value).raised THEN Ok(PyStr(Str(value))) ELSE ConvertBody(value)

(***************************************************************************)
(* extract_gps_info                                                        *)
(***************************************************************************)
\* PIL.ExifTags.GPSTAGS, the ids the code refers to and their neighbours
GPSTAGS ==
    [id \in 0..7 |->
        CASE id = 0 -> "GPSVersionID"
          [] id = 1 -> "GPSLatitudeRef"
          [] id = 2 -> "GPSLatitude"
          [] id = 3 -> "GPSLongitudeRef"
          [] id = 4 -> "GPSLongitude"
          [] id = 5 -> "GPSAltitudeRef"
          [] id = 6 -> "GPSAltitude"
          [] id = 7 -> "GPSTimeStamp"]

\* GPSTAGS.get(key, key)
GpsTag(key) ==
    IF key.ty = "int" /\ key.v \in DOMAIN GPSTAGS
    THEN PyStr(GPSTAGS[key.v]) ELSE key

\* float(value) of the GPSAltitude branch raises on anything but a number
\* (a str that spells a number is not among the modelled values)
FloatError(value) ==
    IF value.ty = "str"
    THEN "could not convert string to float: " \o Repr(value)
    ELSE "float() argument must be a string or a real number, not '"
         \o value.ty \o "'"

\* the for loop of extract_gps_info from entry i on; an exception ends it
RECURSIVE GpsLoop(_, _, _)
GpsLoop(gps_info, i, gps_data) ==
    IF i > Len(gps_info) THEN Ok(gps_data)
    ELSE
      LET key == gps_info[i].key
          value == gps_info[i].val
          tag == GpsTag(key)
          deg == convert_to_degrees(value)
      IN  IF IsStr(tag, "GPSLatitude") THEN
            IF deg.raised THEN Raised(gps_data, deg.msg)
            ELSE GpsLoop(gps_info, i + 1,
                    DictSet(DictSet(gps_data, PyStr("Latitude"), deg.data),
                            PyStr("LatitudeRef"),
                            DictGet(gps_info, PyInt(1), PyStr("Unknown"))))
          ELSE IF IsStr(tag, "GPSLongitude") THEN
            IF deg.raised THEN Raised(gps_data, deg.msg)
            ELSE GpsLoop(gps_info, i + 1,
                    DictSet(DictSet(gps_data, PyStr("Longitude"), deg.data),
                            PyStr("LongitudeRef"),
                            DictGet(gps_info, PyInt(3), PyStr("Unknown"))))
          ELSE IF IsStr(tag, "GPSAltitude") THEN
            IF IsNumber(value)
            THEN GpsLoop(gps_info, i + 1,
                    DictSet(gps_data, PyStr("Altitude"),
                            PyStr(FloatStr(FloatOf(Units(value))) \o " meters")))
            ELSE Raised(gps_data, FloatError(value))
          ELSE IF IsStr(tag, "GPSTimeStamp") THEN
            GpsLoop(gps_info, i + 1, DictSet(gps_data, PyStr("GPSTime"), PyStr(Str(value))))
          ELSE
            GpsLoop(gps_info, i + 1, DictSet(gps_data, tag, value))

NegError(x) == "bad operand type for unary -: '" \o x.ty \o "'"

\* the hemisphere letters compared the wrong way round: the sign flips on
\* every reference but the letter
SignCorrectInverted(coord, ref, letter) ==
    IF ~IsStr(ref, letter)
    THEN IF coord.ty = "float" THEN Ok(NegFloat(coord)) ELSE Raised(coord, NegError(coord))
    ELSE Ok(coord)

\* "lat = -lat" under its guard; the operand is a float or a str
SignCorrect(coord, ref, letter) ==
    IF IsStr(ref, letter)
    THEN IF coord.ty = "float" THEN Ok(NegFloat(coord)) ELSE Raised(coord, NegError(coord))
    ELSE Ok(coord)

\* the body of the "if" after the loop: sign correction, then the link
LinkOf(gps_data) ==
    LET lat == SignCorrect(DictGet(gps_data, PyStr("Latitude"), PyNone),
                           DictGet(gps_data, PyStr("LatitudeRef"), PyNone), "S")
        lon == SignCorrect(DictGet(gps_data, PyStr("Longitude"), PyNone),
                           DictGet(gps_data, PyStr("LongitudeRef"), PyNone), "W")
    IN  IF lat.raised THEN Raised(gps_data, lat.msg)
        ELSE IF lon.raised THEN Raised(gps_data, lon.msg)
        ELSE Ok(DictSet(gps_data, PyStr("Google_Maps_Link"),
                  PyStr("https://maps.google.com/?q=" \o Str(lat.data)
                        \o "," \o Str(lon.data))))

\* "or" in place of "and": one coordinate is enough (a missing one is read
\* with .get and comes out as None)
GpsLinkEither(gps_data) ==
    IF DictHas(gps_data, PyStr("Latitude")) \/ DictHas(gps_data, PyStr("Longitude"))
    THEN LinkOf(gps_data) ELSE Ok(gps_data)

\* the block after the loop: the Google Maps link when both coordinates
\* are in gps_data
GpsLink(gps_data) ==
    IF DictHas(gps_data, PyStr("Latitude")) /\ DictHas(gps_data, PyStr("Longitude"))
    THEN LinkOf(gps_data) ELSE Ok(gps_data)

WithError(r) ==
    IF r.raised THEN DictSet(r.data, PyStr("Error"), PyStr(r.msg)) ELSE r.data

\* extract_gps_info(gps_info), the returned gps_data
extract_gps_info(gps_info) ==
    IF gps_info.ty # "dict"
    THEN WithError(Raised(EmptyDict,
            "'" \o gps_info.ty \o "' object has no attribute 'keys'"))
    ELSE
      LET loop == GpsLoop(gps_info.v, 1, EmptyDict)
      IN  IF loop.raised THEN WithError(loop) ELSE WithError(GpsLink(loop.data))

(***************************************************************************)
(* Paths and console input                                                 *)
(***************************************************************************)
\* A string the user types, and a path, is a sequence of pieces.
Pieces == {" ", "\"", "img", ".HEIC", ".heif"}

\* str.lower() of one piece
LowerPiece(p) ==
    CASE p = ".HEIC" -> ".heic"
      [] p = "Y" -> "y"
      [] p = "N" -> "n"
      [] OTHER -> p
\* a slip: the comparison made on the text as typed
LowerNot(text) == text
\* str.lower()
Lower(text) == [i \in 1..Len(text) |-> LowerPiece(text[i])]

RECURSIVE LStrip(_, _)
LStrip(text, chars) ==
    IF Len(text) > 0 /\ text[1] \in chars THEN LStrip(Tail(text), chars) ELSE text
RECURSIVE RStrip(_, _)
RStrip(text, chars) ==
    IF Len(text) > 0 /\ text[Len(text)] \in chars
    THEN RStrip(SubSeq(text, 1, Len(text) - 1), chars) ELSE text
\* str.strip(chars)
Strip(text, chars) == RStrip(LStrip(text, chars), chars)

RECURSIVE Concat(_)
Concat(text) == IF Len(text) = 0 THEN "" ELSE text[1] \o Concat(Tail(text))

\* path.lower().endswith(('.heic', '.heif'))
IsHeicPath(path) ==
    Len(path) > 0 /\ Lower(path)[Len(path)] \in {".heic", ".heif"}

(***************************************************************************)
(* The record and the extraction steps                                     *)
(***************************************************************************)
\* "self.metadata = {...}" in place of the item assignment
ReplaceRecord(metadata, category, payload) == <<Entry(PyStr(category), PyDict(payload))>>
\* self.metadata[category] = payload
Store(metadata, category, payload) == DictSet(metadata, PyStr(category), PyDict(payload))

\* an except clause that stores nothing usable
ErrorPayloadEmpty(msg) == EmptyDict
\* {'Error': str(e)}
ErrorPayload(msg) == <<Entry(PyStr("Error"), PyStr(msg))>>

\* extract_basic_info, the try body with img opened
BasicInfo(img, path, size) ==
    <<Entry(PyStr("Format"), PyStr(img.format)),
      Entry(PyStr("Mode"), PyStr(img.mode)),
      Entry(PyStr("Size"), PyTuple(<<PyInt(img.width), PyInt(img.height)>>)),
      Entry(PyStr("Width"), PyInt(img.width)),
      Entry(PyStr("Height"), PyInt(img.height)),
      Entry(PyStr("Filename"), PyStr(Concat(path))),
      Entry(PyStr("File_Size"), PyStr(ToString(size) \o " bytes"))>>

\* PIL.ExifTags.TAGS, restricted to the ids of the modelled EXIF blocks;
\* any id outside it is an id the table lacks
TagNames == {"Make", "ExposureTime", "GPSInfo", "UserComment"}
TagIdOf(name) ==
    CASE name = "Make" -> 271
      [] name = "ExposureTime" -> 33434
      [] name = "GPSInfo" -> 34853
      [] name = "UserComment" -> 37510
\* TAGS.get(tag_id, tag_id)
ExifTag(tag_id) ==
    IF \E n \in TagNames : TagIdOf(n) = tag_id.v
    THEN PyStr(CHOOSE n \in TagNames : TagIdOf(n) = tag_id.v)
    ELSE tag_id

\* value.decode('utf-8', errors='ignore'): the invalid bytes are dropped
RECURSIVE DecodeIgnore(_)
DecodeIgnore(bs) ==
    IF Len(bs) = 0 THEN ""
    ELSE (IF ByteIsUtf8(bs[1]) THEN bs[1] ELSE "") \o DecodeIgnore(Tail(bs))

\* the for loop of extract_exif_data from entry i on
RECURSIVE ExifLoop(_, _, _)
ExifLoop(exif_data, i, exif_dict) ==
    IF i > Len(exif_data) THEN exif_dict
    ELSE
      LET value == exif_data[i].val
          tag == ExifTag(exif_data[i].key)
      IN  IF IsStr(tag, "GPSInfo")
          THEN ExifLoop(exif_data, i + 1,
                    DictSet(exif_dict, tag, PyDict(extract_gps_info(value))))
          ELSE IF value.ty = "bytes"
          THEN ExifLoop(exif_data, i + 1,
                    DictSet(exif_dict, tag, PyStr(DecodeIgnore(value.v))))
          ELSE ExifLoop(exif_data, i + 1, DictSet(exif_dict, tag, value))

\* extract_exif_data, the try body once _getexif() returned exif_data
\* (None or an empty dict is falsy)
ExifPayload(exif_data) ==
    IF exif_data.ty = "dict" /\ Len(exif_data.v) > 0
    THEN ExifLoop(exif_data.v, 1, EmptyDict)
    ELSE <<Entry(PyStr("Info"), PyStr("No EXIF data found"))>>

\* extract_heic_metadata, the for loop over heif_file.metadata: a repeated
\* type overwrites
RECURSIVE HeicLoop(_, _, _)
HeicLoop(items, i, metadata) ==
    IF i > Len(items) THEN metadata
    ELSE HeicLoop(items, i + 1, DictSet(metadata, PyStr(items[i].type), items[i].data))

\* extract_file_metadata, the try body with stat_info
FileMetadata(stat_info) ==
    <<Entry(PyStr("Creation_Time"), FloatOf(stat_info.st_ctime)),
      Entry(PyStr("Modification_Time"), FloatOf(stat_info.st_mtime)),
      Entry(PyStr("Access_Time"), FloatOf(stat_info.st_atime)),
      Entry(PyStr("File_Permissions"), PyInt(stat_info.st_mode)),
      Entry(PyStr("File_Inode"), PyInt(stat_info.st_ino))>>

(***************************************************************************)
(* display_metadata                                                        *)
(***************************************************************************)
\* "'GPS' in key or 'Location' in key" for the str keys a category payload
\* can hold
HasGpsMarker(name) == name \in {"GPSInfo"}

\* the lines printed for the fields of one category from field i on; a key
\* that is no str makes "'GPS' in key" raise TypeError
RECURSIVE DisplayFields(_, _, _)
DisplayFields(data, i, out) ==
    IF i > Len(data) THEN Ok(out)
    ELSE
      LET key == data[i].key
          value == data[i].val
      IN  IF IsStr(key, "Google_Maps_Link")
          THEN DisplayFields(data, i + 1,
                    Append(out, "  " \o Str(key) \o ": <blue>" \o Str(value)))
          ELSE IF key.ty # "str"
          THEN Raised(out, "argument of type '" \o key.ty \o "' is not iterable")
          ELSE IF HasGpsMarker(key.v)
          THEN DisplayFields(data, i + 1,
                    Append(out, "  " \o Str(key) \o ": <green>" \o Str(value)))
          ELSE DisplayFields(data, i + 1,
                    Append(out, "  " \o Str(key) \o ": " \o Str(value)))

\* the outer loop of display_metadata from category i on
RECURSIVE DisplayLoop(_, _, _)
DisplayLoop(metadata, i, out) ==
    IF i > Len(metadata) THEN Ok(out)
    ELSE
      LET data == metadata[i].val
          header == Append(out, Str(metadata[i].key) \o ":")
          fields == DisplayFields(data.v, 1, header)
      IN  IF data.ty = "dict"
          THEN IF fields.raised THEN fields ELSE DisplayLoop(metadata, i + 1, fields.data)
          ELSE DisplayLoop(metadata, i + 1, Append(header, "  " \o Str(data)))

\* display_metadata: [data |-> the lines printed, raised, msg]
display_metadata(path, metadata) ==
    DisplayLoop(metadata, 1, <<"METADATA EKSTRAKSI UNTUK: " \o Concat(path)>>)

(***************************************************************************)
(* save_to_json                                                            *)
(***************************************************************************)
\* json.dumps(x) succeeds
RECURSIVE JsonOk(_)
JsonOk(x) ==
    CASE x.ty \in {"none", "int", "float", "str"} -> TRUE
      [] x.ty = "tuple" -> \A i \in 1..Len(x.v) : JsonOk(x.v[i])
      [] x.ty = "dict" ->
            \A i \in 1..Len(x.v) :
                /\ x.v[i].key.ty \in {"none", "int", "float", "str"}
                /\ JsonOk(x.v[i].val)
      [] OTHER -> FALSE

\* the JSON text of a serializable value, as the JSON value it spells:
\* a tuple becomes an array, a dict key that is no str becomes a string
JNull == [ty |-> "null", v |-> 0]
JNumber(text) == [ty |-> "number", v |-> text]
JString(text) == [ty |-> "string", v |-> text]
JArray(elems) == [ty |-> "array", v |-> elems]
JObject(members) == [ty |-> "object", v |-> members]
Member(name, x) == [name |-> name, val |-> x]

JsonKey(k) == IF k.ty = "str" THEN k.v ELSE IF k.ty = "none" THEN "null" ELSE Repr(k)

RECURSIVE JsonDump(_)
JsonDump(x) ==
    CASE x.ty = "none" -> JNull
      [] x.ty \in {"int", "float"} -> JNumber(Repr(x))
      [] x.ty = "str" -> JString(x.v)
      [] x.ty = "tuple" -> JArray([i \in 1..Len(x.v) |-> JsonDump(x.v[i])])
      [] x.ty = "dict" ->
            JObject([i \in 1..Len(x.v) |->
                        Member(JsonKey(x.v[i].key), JsonDump(x.v[i].val))])

\* the field loop without the inner try: every value kept as it is
SerializableFieldAsIs(value) == value
\* the inner try of save_to_json: the value, or str(value) when
\* json.dumps(value) raises
SerializableField(value) == IF JsonOk(value) THEN value ELSE PyStr(Str(value))

\* serializable_metadata
SerializableMetadata(metadata) ==
    [c \in 1..Len(metadata) |->
        Entry(metadata[c].key,
              IF metadata[c].val.ty = "dict"
              THEN PyDict([f \in 1..Len(metadata[c].val.v) |->
                              Entry(metadata[c].val.v[f].key,
                                    SerializableField(metadata[c].val.v[f].val))])
              ELSE PyStr(Str(metadata[c].val)))]

(***************************************************************************)
(* State                                                                   *)
(***************************************************************************)
VARIABLES
    pc,         \* where the interactive run stands
    photo_path, \* main's photo_path, the extractor's image_path
    metadata,   \* self.metadata, a dict of category -> payload
    returned,   \* what extract_all() returned to main, NotReturned before
    calls,      \* the methods called and prompts shown so far, in order
    stdout,     \* the lines printed by main, display_metadata, save_to_json
    json_file,  \* the output file of save_to_json
    uncaught,   \* the message of an exception that left main, "" if none
    stdin,      \* the texts the user typed at the prompts, in order
    fs_exists,  \* what os.path.exists(photo_path) said: "unchecked", "yes", "no"
    failed,     \* the <<category, message>> of each step whose try body raised
    call,       \* the pending call of a helper: [fn, arg]
    result      \* what the call returned: [data, raised, msg], or Pending

vars == <<pc, photo_path, metadata, returned, calls, stdout, json_file,
          uncaught, stdin, fs_exists, failed, call, result>>

Pending == [data |-> PyNone, raised |-> FALSE, msg |-> "pending"]
NoCall == [fn |-> "none", arg |-> PyNone]
NotReturned == PyNone
NoFile == [state |-> "absent", name |-> "", content |-> JNull]

\* the state of the object right after __init__, before any method ran
Constructed ==
    /\ metadata = EmptyDict
    /\ returned = NotReturned
    /\ calls = <<>>
    /\ stdout = <<>>
    /\ json_file = NoFile
    /\ uncaught = ""
    /\ stdin = <<>>
    /\ fs_exists = "unchecked"
    /\ failed = {}

(***************************************************************************)
(* Inputs of the helper calls                                              *)
(***************************************************************************)
MaxCoordLen == 4
MaxGpsTags == 4

\* sequences over S of length 0..n
SeqUpTo(S, n) == UNION {[1..k -> S] : k \in 0..n}

CoordItems == {PyInt(0), PyInt(10), PyInt(30), PyRational(7), PyStr("x")}
\* the values handed to convert_to_degrees: tuples of up to n items, and
\* values that are no tuple
CoordValues(n) ==
    {PyTuple(t) : t \in SeqUpTo(CoordItems, n)}
    \cup {PyInt(5), PyRational(5), PyStr("abc"), PyStr("10.5"), PyNone,
          PyBytes(<<"h", "i", "\\xff">>), PyBytes(<<"h">>)}

Dms(d, m, sec) == PyTuple(<<d, m, sec>>)
\* the tag/value pairs a raw GPS block is made of
GpsPool ==
    {Entry(PyInt(1), PyStr("S")), Entry(PyInt(1), PyStr("N")),
     Entry(PyInt(2), Dms(PyRational(10), PyRational(30), PyRational(0))),
     Entry(PyInt(2), Dms(PyInt(0), PyInt(0), PyInt(0))),
     Entry(PyInt(2), PyTuple(<<PyRational(10), PyRational(30)>>)),
     Entry(PyInt(3), PyStr("W")), Entry(PyInt(3), PyStr("E")),
     Entry(PyInt(4), Dms(PyRational(20), PyRational(0), PyRational(0))),
     Entry(PyInt(4), Dms(PyInt(1), PyInt(2), PyInt(3))),
     Entry(PyInt(4), PyStr("20.0")),
     Entry(PyInt(6), PyRational(5)), Entry(PyInt(6), PyStr("high")),
     Entry(PyInt(7), Dms(PyInt(10), PyInt(0), PyInt(30))),
     Entry(PyInt(99), PyBytes(<<"h", "i">>))}

DistinctKeys(d) == \A i, j \in 1..Len(d) : PyEq(d[i].key, d[j].key) => i = j

\* what _getexif() hands over as the GPSInfo value: the GPS IFD as a dict,
\* or (older Pillow) the int offset of the IFD
RawGpsBlocks(n) ==
    {PyDict(d) : d \in {e \in SeqUpTo(GpsPool, n) : DistinctKeys(e)}}
    \cup {PyInt(26)}

InitPure ==
    /\ call \in {[fn |-> "convert_to_degrees", arg |-> x] : x \in CoordValues(MaxCoordLen)}
              \cup {[fn |-> "extract_gps_info", arg |-> b] : b \in RawGpsBlocks(MaxGpsTags)}
    /\ result = Pending
    /\ pc = "helper"
    /\ photo_path = <<>>
    /\ Constructed

mainvars == <<pc, photo_path, metadata, returned, calls, stdout, json_file,
              uncaught, stdin, fs_exists, failed>>

CallConvertToDegrees ==
    /\ call.fn = "convert_to_degrees"
    /\ result = Pending
    /\ result' = convert_to_degrees(call.arg)
    /\ UNCHANGED <<call, mainvars>>

CallExtractGpsInfo ==
    /\ call.fn = "extract_gps_info"
    /\ result = Pending
    /\ result' = Ok(PyDict(extract_gps_info(call.arg)))
    /\ UNCHANGED <<call, mainvars>>

NextPure == CallConvertToDegrees \/ CallExtractGpsInfo

SpecPure == InitPure /\ [][NextPure]_vars

Returned(fn) == call.fn = fn /\ result # Pending

(***************************************************************************)
(* The interactive run: main() and the methods it calls                    *)
(***************************************************************************)
MaxPathLen == 2
MaxExifTags == 1
MaxHeifItems == 2

\* what the user types at the path prompt
TypedPaths(n) == SeqUpTo(Pieces, n)
Answers == {<<"y">>, <<"Y">>, <<"n">>, <<"y", "es">>}

Images == {[format |-> "JPEG", mode |-> "RGB", width |-> 4, height |-> 3]}
FileSizes == {2048}
DecodeErrors == {"cannot identify image file"}
ExifErrors == {"'PngImageFile' object has no attribute '_getexif'"}
HeifErrors == {"Invalid input: No 'ftyp' box"}
StatErrors == {"[Errno 2] No such file or directory"}
OpenErrors == {"[Errno 13] Permission denied"}
Stats == {[st_ctime |-> 100, st_mtime |-> 90, st_atime |-> 110, st_mode |-> 33188, st_ino |-> 7]}

GoodGps ==
    PyDict(<<Entry(PyInt(1), PyStr("S")),
             Entry(PyInt(2), Dms(PyRational(10), PyRational(30), PyRational(0))),
             Entry(PyInt(3), PyStr("E")),
             Entry(PyInt(4), Dms(PyRational(20), PyRational(0), PyRational(0)))>>)
BadGps ==
    PyDict(<<Entry(PyInt(1), PyStr("S")),
             Entry(PyInt(2), PyTuple(<<PyRational(10), PyRational(30)>>)),
             Entry(PyInt(4), Dms(PyRational(20), PyRational(0), PyRational(0))),
             Entry(PyInt(5), PyBytes(<<"\\xff">>))>>)

\* the tag/value pairs a raw EXIF block is made of; 59932 is an id the tag
\* table lacks
ExifPool ==
    {Entry(PyInt(271), PyStr("Canon")),
     Entry(PyInt(33434), PyRational(1)),
     Entry(PyInt(37510), PyBytes(<<"h", "i", "\\xff">>)),
     Entry(PyInt(34853), GoodGps),
     Entry(PyInt(34853), BadGps),
     Entry(PyInt(59932), PyBytes(<<"h">>))}

\* what _getexif() returns
RawExifs(n) ==
    {PyDict(d) : d \in {e \in SeqUpTo(ExifPool, n) : DistinctKeys(e)}}
    \cup {PyNone}

HeifItems ==
    {[type |-> "Exif", data |-> PyBytes(<<"h">>)],
     [type |-> "Exif", data |-> PyBytes(<<"i">>)]}
\* heif_file.metadata
HeifItemLists(n) == SeqUpTo(HeifItems, n)

Init ==
    /\ pc = "input_path"
    /\ photo_path = <<>>
    /\ Constructed
    /\ call = NoCall
    /\ result = Pending

helpervars == <<call, result>>

\* main: the path prompt and the existence test
InputPath ==
    /\ pc = "input_path"
    /\ \E typed \in TypedPaths(MaxPathLen), exists \in BOOLEAN :
         LET path == Strip(Strip(typed, {" "}), {"\""})
         IN  /\ path = <<>> => ~exists
             /\ stdin' = Append(stdin, typed)
             /\ photo_path' = path
             /\ fs_exists' = IF exists THEN "yes" ELSE "no"
             /\ IF exists
                THEN pc' = "extract_all" /\ UNCHANGED stdout
                ELSE pc' = "done" /\ stdout' = Append(stdout, "File tidak ditemukan!")
    /\ calls' = Append(calls, "input_path")
    /\ UNCHANGED <<metadata, returned, json_file, uncaught, failed, helpervars>>

\* extract_all, its entry
ExtractAll ==
    /\ pc = "extract_all"
    /\ stdout' = Append(stdout, "Memproses file: " \o Concat(photo_path))
    /\ calls' = Append(calls, "extract_all")
    /\ pc' = "extract_basic_info"
    /\ UNCHANGED <<photo_path, metadata, returned, json_file, uncaught, stdin,
                   fs_exists, failed, helpervars>>

stepframe == <<photo_path, returned, stdout, json_file, uncaught, stdin,
               fs_exists, helpervars>>

Fail(category, msg) ==
    /\ metadata' = Store(metadata, category, ErrorPayload(msg))
    /\ failed' = failed \cup {<<category, msg>>}

Succeed(category, payload) ==
    /\ metadata' = Store(metadata, category, payload)
    /\ UNCHANGED failed

ExtractBasicInfo ==
    /\ pc = "extract_basic_info"
    /\ \/ \E img \in Images, size \in FileSizes :
            Succeed("Basic_Info", BasicInfo(img, photo_path, size))
       \/ \E msg \in DecodeErrors : Fail("Basic_Info", msg)
    /\ calls' = Append(calls, "extract_basic_info")
    /\ pc' = "extract_exif_data"
    /\ UNCHANGED stepframe

ExtractExifData ==
    /\ pc = "extract_exif_data"
    /\ \/ \E exif_data \in RawExifs(MaxExifTags) : Succeed("EXIF_Data", ExifPayload(exif_data))
       \/ \E msg \in ExifErrors : Fail("EXIF_Data", msg)
    /\ calls' = Append(calls, "extract_exif_data")
    /\ pc' = "extract_heic_metadata"
    /\ UNCHANGED stepframe

ExtractHeicMetadata ==
    /\ pc = "extract_heic_metadata"
    /\ \/ /\ IsHeicPath(photo_path)
          /\ \E items \in HeifItemLists(MaxHeifItems) :
                Succeed("HEIC_Metadata", HeicLoop(items, 1, EmptyDict))
       \/ /\ IsHeicPath(photo_path)
          /\ \E msg \in HeifErrors : Fail("HEIC_Metadata", msg)
       \/ /\ ~IsHeicPath(photo_path)
          /\ UNCHANGED <<metadata, failed>>
    /\ calls' = Append(calls, "extract_heic_metadata")
    /\ pc' = "extract_file_metadata"
    /\ UNCHANGED stepframe

ExtractFileMetadata ==
    /\ pc = "extract_file_metadata"
    /\ \/ \E stat_info \in Stats : Succeed("File_System_Data", FileMetadata(stat_info))
       \/ \E msg \in StatErrors : Fail("File_System_Data", msg)
    /\ calls' = Append(calls, "extract_file_metadata")
    /\ pc' = "display_metadata"
    /\ UNCHANGED stepframe

\* display_metadata, called by extract_all; its exception leaves extract_all
\* and main
DisplayMetadata ==
    /\ pc = "display_metadata"
    /\ LET shown == display_metadata(photo_path, metadata)
       IN  /\ stdout' = stdout \o shown.data
           /\ IF shown.raised
              THEN pc' = "crashed" /\ uncaught' = shown.msg
              ELSE pc' = "return" /\ UNCHANGED uncaught
    /\ calls' = Append(calls, "display_metadata")
    /\ UNCHANGED <<photo_path, metadata, returned, json_file, stdin, fs_exists,
                   failed, helpervars>>

\* extract_all, "return self.metadata"
ExtractAllReturn ==
    /\ pc = "return"
    /\ returned' = PyDict(metadata)
    /\ pc' = "input_save"
    /\ UNCHANGED <<photo_path, metadata, calls, stdout, json_file, uncaught,
                   stdin, fs_exists, failed, helpervars>>

\* a guard that takes everything but "n" for a yes
ShouldSaveUnlessNo(answer) == Lower(answer) # <<"n">>
\* save_choice == 'y' with save_choice = input(...).lower()
ShouldSave(answer) == Lower(answer) = <<"y">>

\* main: the save prompt
InputSave ==
    /\ pc = "input_save"
    /\ \E answer \in Answers :
         /\ stdin' = Append(stdin, answer)
         /\ pc' = IF ShouldSave(answer) THEN "save_to_json" ELSE "done"
    /\ calls' = Append(calls, "input_save")
    /\ UNCHANGED <<photo_path, metadata, returned, stdout, json_file, uncaught,
                   fs_exists, failed, helpervars>>

\* os.path.splitext(path)[0] + '_metadata.json'
Extensions == {".HEIC", ".heif"}
DefaultOutput(path) ==
    IF Len(path) > 1 /\ path[Len(path)] \in Extensions
    THEN Concat(SubSeq(path, 1, Len(path) - 1)) \o "_metadata.json"
    ELSE Concat(path) \o "_metadata.json"

\* save_to_json()
SaveToJson ==
    /\ pc = "save_to_json"
    /\ LET output_file == DefaultOutput(photo_path)
           serializable_metadata == SerializableMetadata(metadata)
       IN  \/ \E msg \in OpenErrors :
                /\ stdout' = Append(stdout, "Error menyimpan ke JSON: " \o msg)
                /\ UNCHANGED json_file
           \/ IF JsonOk(PyDict(serializable_metadata))
              THEN /\ json_file' = [state |-> "written", name |-> output_file,
                                    content |-> JsonDump(PyDict(serializable_metadata))]
                   /\ stdout' = Append(stdout, "Metadata disimpan ke: " \o output_file)
              ELSE /\ json_file' = [state |-> "partial", name |-> output_file,
                                    content |-> JNull]
                   /\ stdout' = Append(stdout,
                        "Error menyimpan ke JSON: Object is not JSON serializable")
    /\ calls' = Append(calls, "save_to_json")
    /\ pc' = "done"
    /\ UNCHANGED <<photo_path, metadata, returned, uncaught, stdin, fs_exists,
                   failed, helpervars>>

Next ==
    \/ InputPath
    \/ ExtractAll
    \/ ExtractBasicInfo
    \/ ExtractExifData
    \/ ExtractHeicMetadata
    \/ ExtractFileMetadata
    \/ DisplayMetadata
    \/ ExtractAllReturn
    \/ InputSave
    \/ SaveToJson

Spec == Init /\ [][Next]_vars

(***************************************************************************)
(* save_to_json on its own, over records of every shape                    *)
(***************************************************************************)
MaxFields == 2
MaxCategories == 2

CategoryNames == <<"Basic_Info", "EXIF_Data", "HEIC_Metadata", "File_System_Data">>

FieldPool ==
    {Entry(k, x) : k \in {PyStr("f"), PyInt(7)},
                   x \in {PyInt(1), PyRational(1),
                          PyTuple(<<PyInt(4), PyRational(3)>>)}}
\* a category payload: a dict of fields, or something that is no dict
JsonPayloads(n) ==
    {PyDict(d) : d \in {e \in SeqUpTo(FieldPool, n) : DistinctKeys(e)}}
    \cup {PyRational(3)}

RecordOf(S, f) ==
    LET idx == SelectSeq(<<1, 2, 3, 4>>, LAMBDA i : i \in S)
    IN  [k \in 1..Len(idx) |-> Entry(PyStr(CategoryNames[idx[k]]), f[idx[k]])]
InitJson ==
    /\ pc = "save_to_json"
    /\ photo_path = <<"img", ".HEIC">>
    /\ \E S \in {T \in SUBSET (1..4) : Cardinality(T) <= MaxCategories} :
         \E f \in [S -> JsonPayloads(MaxFields)] : metadata = RecordOf(S, f)
    /\ returned = NotReturned
    /\ calls = <<>>
    /\ stdout = <<>>
    /\ json_file = NoFile
    /\ uncaught = ""
    /\ stdin = <<>>
    /\ fs_exists = "yes"
    /\ failed = {}
    /\ call = NoCall
    /\ result = Pending

NextJson == SaveToJson

SpecJson == InitJson /\ [][NextJson]_vars

(***************************************************************************)
(* Properties of extract_gps_info and convert_to_degrees                   *)
(***************************************************************************)
GpsReturned == Returned("extract_gps_info")
Payload == result.data.v
RawHas(id) == call.arg.ty = "dict" /\ DictHas(call.arg.v, PyInt(id))
Field(name) == DictGet(Payload, PyStr(name), PyNone)
HasField(name) == DictHas(Payload, PyStr(name))

\* the float x negated exactly when ref is the given letter
Signed(x, ref, letter) ==
    PyFloat((x.v.neg /\ ~IsStr(ref, letter)) \/ (~x.v.neg /\ IsStr(ref, letter)), x.v.mag)

BothDecimal ==
    /\ HasField("Latitude") /\ Field("Latitude").ty = "float"
    /\ HasField("Longitude") /\ Field("Longitude").ty = "float"

\* C5: when Latitude and Longitude were both derived as decimal numbers, the
\* stored Google_Maps_Link is "https://maps.google.com/?q={lat},{lon}" with
\* lat negated exactly when LatitudeRef is "S" and lon negated exactly when
\* LongitudeRef is "W"; any other reference leaves the sign alone.
C5_LinkSigned ==
    (GpsReturned /\ BothDecimal /\ HasField("Google_Maps_Link")) =>
        Field("Google_Maps_Link") =
            PyStr("https://maps.google.com/?q="
                  \o FloatStr(Signed(Field("Latitude"), Field("LatitudeRef"), "S"))
                  \o ","
                  \o FloatStr(Signed(Field("Longitude"), Field("LongitudeRef"), "W")))

\* the example of the claim: 10.5 S, 20.0 E
C5_Witness ==
    /\ GpsReturned /\ BothDecimal
    /\ Field("Latitude") = FloatOf(37800) /\ IsStr(Field("LatitudeRef"), "S")
    /\ Field("Longitude") = FloatOf(72000) /\ IsStr(Field("LongitudeRef"), "E")
    /\ Field("Google_Maps_Link") = PyStr("https://maps.google.com/?q=-10.5,20.0")

\* C6: whenever the raw GPS block holds both a GPSLatitude and a
\* GPSLongitude tag, the returned payload holds a Google_Maps_Link built
\* from the signed decimal latitude and longitude.
C6_LinkAlways ==
    (GpsReturned /\ RawHas(2) /\ RawHas(4)) =>
        /\ BothDecimal
        /\ HasField("Google_Maps_Link")
        /\ Field("Google_Maps_Link") =
            PyStr("https://maps.google.com/?q="
                  \o FloatStr(Signed(Field("Latitude"), Field("LatitudeRef"), "S"))
                  \o ","
                  \o FloatStr(Signed(Field("Longitude"), Field("LongitudeRef"), "W")))

\* C7: a raw GPS block that lacks the GPSLatitude tag or lacks the
\* GPSLongitude tag yields a payload without a Google_Maps_Link key, also
\* when an exception was caught and an Error field added.
C7_NoLinkWithoutBoth ==
    (GpsReturned /\ ~(RawHas(2) /\ RawHas(4))) => ~HasField("Google_Maps_Link")

\* one coordinate present, the other missing, and an exception caught
C7_Witness ==
    /\ GpsReturned /\ RawHas(2) /\ ~RawHas(4)
    /\ HasField("Latitude") /\ HasField("Error")
    /\ ~HasField("Google_Maps_Link")

\* the argument is a tuple of exactly three numbers
ThreeNumbers(x) ==
    /\ x.ty = "tuple" /\ Len(x.v) = 3
    /\ \A i \in 1..3 : x.v[i].ty \in {"int", "rational"}

\* C8: convert_to_degrees never raises; on three numbers (d, m, s) it returns
\* d + m/60 + s/3600, and on an input that does not unpack into exactly three
\* parts, or whose parts do not support the arithmetic, it returns str(input).
C8_ConvertToDegrees ==
    Returned("convert_to_degrees") =>
        /\ ~result.raised
        /\ ThreeNumbers(call.arg) =>
              /\ result.data.ty = "float"
              /\ Units(result.data) =
                    3600 * call.arg.v[1].v + 60 * call.arg.v[2].v + call.arg.v[3].v
        /\ (call.arg.ty \notin {"tuple", "bytes", "dict"} \/ Len(call.arg.v) # 3
            \/ (call.arg.ty = "tuple" /\ \E i \in 1..Len(call.arg.v) :
                                            call.arg.v[i].ty = "str")) =>
              result.data = PyStr(Str(call.arg))

\* (10, 30, 0) gives 10.5
C8_Witness ==
    /\ Returned("convert_to_degrees")
    /\ call.arg = PyTuple(<<PyInt(10), PyInt(30), PyInt(0)>>)
    /\ result.data = FloatOf(37800) /\ FloatStr(result.data) = "10.5"


(***************************************************************************)
(* Properties of the run                                                   *)
(***************************************************************************)
Range(q) == {q[i] : i \in 1..Len(q)}
Category(m, c) == DictGet(m, PyStr(c), PyNone)
HasCategory(m, c) == DictHas(m, PyStr(c))
ErrorOnly(msg) == PyDict(<<Entry(PyStr("Error"), PyStr(msg))>>)

AfterExtraction == "extract_file_metadata" \in Range(calls)
\* the path ends with .heic or .heif in some letter case
EndsHeic == Len(photo_path) > 0 /\ photo_path[Len(photo_path)] \in {".HEIC", ".heif"}
ExpectedKeys ==
    {PyStr("Basic_Info"), PyStr("EXIF_Data"), PyStr("File_System_Data")}
    \cup (IF EndsHeic THEN {PyStr("HEIC_Metadata")} ELSE {})

\* C1: whatever the four steps' outcomes, the record extract_all() returns has
\* the keys Basic_Info, EXIF_Data and File_System_Data, has HEIC_Metadata
\* exactly when the path ends (in any letter case) with .heic or .heif, and
\* has no other key; on another extension no HEIC_Metadata key is ever made.
C1_RecordKeys ==
    /\ ~EndsHeic => ~HasCategory(metadata, "HEIC_Metadata")
    /\ AfterExtraction => DictKeys(metadata) = ExpectedKeys
    /\ returned # NotReturned =>
          returned = PyDict(metadata) /\ DictKeys(returned.v) = ExpectedKeys

\* a returned record of an upper-case .HEIC path
C1_Witness ==
    /\ returned # NotReturned
    /\ photo_path[Len(photo_path)] = ".HEIC"
    /\ HasCategory(returned.v, "HEIC_Metadata")

\* C2, as stated: after full extraction all four categories are present.
C2_AllFourPresent ==
    AfterExtraction =>
        \A i \in 1..4 : HasCategory(metadata, CategoryNames[i])

\* C2, amended: after full extraction Basic_Info, EXIF_Data and
\* File_System_Data are present, HEIC_Metadata is present when the path ends
\* with .heic or .heif, and each category whose extraction failed holds the
\* payload {"Error": message}.
C2_PresentOrError ==
    AfterExtraction =>
        /\ \A c \in {"Basic_Info", "EXIF_Data", "File_System_Data"} :
                HasCategory(metadata, c)
        /\ EndsHeic => HasCategory(metadata, "HEIC_Metadata")
        /\ \A f \in failed : Category(metadata, f[1]) = ErrorOnly(f[2])

\* a file of another extension, one step failed: three categories only
C2_Witness ==
    /\ AfterExtraction /\ ~EndsHeic
    /\ ~HasCategory(metadata, "HEIC_Metadata")
    /\ \E f \in failed : f[1] = "File_System_Data"
    /\ Category(metadata, "File_System_Data")
            = ErrorOnly("[Errno 2] No such file or directory")

Steps == {"extract_basic_info", "extract_exif_data", "extract_heic_metadata",
          "extract_file_metadata"}
StepCategory(p) ==
    CASE p = "extract_basic_info" -> "Basic_Info"
      [] p = "extract_exif_data" -> "EXIF_Data"
      [] p = "extract_heic_metadata" -> "HEIC_Metadata"
      [] p = "extract_file_metadata" -> "File_System_Data"
StepAfter(p) ==
    CASE p = "extract_basic_info" -> "extract_exif_data"
      [] p = "extract_exif_data" -> "extract_heic_metadata"
      [] p = "extract_heic_metadata" -> "extract_file_metadata"
      [] p = "extract_file_metadata" -> "display_metadata"

\* what one extraction step may do to the run
StepIsolated ==
    pc \in Steps =>
        /\ pc' = StepAfter(pc)
        /\ uncaught' = ""
        /\ \A i \in 1..4 :
              CategoryNames[i] # StepCategory(pc) =>
                /\ HasCategory(metadata', CategoryNames[i])
                        = HasCategory(metadata, CategoryNames[i])
                /\ Category(metadata', CategoryNames[i])
                        = Category(metadata, CategoryNames[i])
        /\ \A f \in failed' \ failed :
              /\ f[1] = StepCategory(pc)
              /\ Category(metadata', f[1]) = ErrorOnly(f[2])

\* C3: a step that fails stores exactly {"Error": message} under its own key,
\* lets no exception out and hands over to the next step; every step,
\* failed or not, leaves every other category's presence and payload as
\* they were.
C3_FailureIsolation == [][StepIsolated]_vars

\* decoding failed in extract_basic_info, the EXIF step then succeeded and the
\* filesystem step failed; each payload sits under its own key
C3_Witness ==
    /\ AfterExtraction
    /\ Category(metadata, "Basic_Info") = ErrorOnly("cannot identify image file")
    /\ <<"Basic_Info", "cannot identify image file">> \in failed
    /\ HasCategory(metadata, "EXIF_Data")
    /\ ~DictHas(Category(metadata, "EXIF_Data").v, PyStr("Error"))
    /\ \E f \in failed : f[1] = "File_System_Data"

RunOrder ==
    <<"input_path", "extract_all", "extract_basic_info", "extract_exif_data",
      "extract_heic_metadata", "extract_file_metadata", "display_metadata">>

\* C4: extract_all() runs the four steps in the order basic info, EXIF,
\* container-specific, filesystem, then display_metadata, and then returns
\* the completed record, for every record the steps can produce.
C4_DisplaysThenReturns ==
    "display_metadata" \in Range(calls) =>
        /\ SubSeq(calls, 1, 7) = RunOrder
        /\ uncaught = ""
        /\ pc = "return" \/ returned = PyDict(metadata)

\* C9: save_to_json writes every record: a field whose value serializes is
\* written as that value, a field whose value does not is written as its
\* str(), a category payload that is no mapping is written as its str(), the
\* written object has the record's category keys, and the write fails only
\* when the file cannot be opened.
C9_PerFieldFallback ==
    (pc = "done" /\ "save_to_json" \in Range(calls)) =>
        \/ /\ json_file = NoFile
           /\ \E msg \in OpenErrors :
                stdout[Len(stdout)] = "Error menyimpan ke JSON: " \o msg
        \/ /\ json_file.state = "written"
           /\ json_file.content.ty = "object"
           /\ Len(json_file.content.v) = Len(metadata)
           /\ \A c \in 1..Len(metadata) :
                LET data == metadata[c].val
                    written == json_file.content.v[c]
                IN  /\ written.name = metadata[c].key.v
                    /\ IF data.ty = "dict"
                       THEN /\ written.val.ty = "object"
                            /\ Len(written.val.v) = Len(data.v)
                            /\ \A f \in 1..Len(data.v) :
                                 /\ written.val.v[f].name = JsonKey(data.v[f].key)
                                 /\ written.val.v[f].val =
                                      IF JsonOk(data.v[f].val)
                                      THEN JsonDump(data.v[f].val)
                                      ELSE JString(Str(data.v[f].val))
                       ELSE written.val = JString(Str(data))

\* one payload with a number next to a value that does not serialize, and a
\* category that is no mapping
C9_Witness ==
    /\ pc = "done" /\ json_file.state = "written"
    /\ Len(metadata) = 2
    /\ metadata[1].val = PyDict(<<Entry(PyStr("f"), PyInt(1)),
                                  Entry(PyInt(7), PyRational(1))>>)
    /\ metadata[2].val = PyRational(3)
    /\ json_file.content.v[1].val =
            JObject(<<Member("f", JNumber("1")), Member("7", JString("1.0"))>>)
    /\ json_file.content.v[2].val = JString("3.0")

\* C10: a path that, stripped of surrounding blanks and quotes, does not
\* exist ends the run with an error and no extraction, display or write; a
\* path that exists is extracted and displayed before the save prompt, and
\* save_to_json is called only after the answer y or Y.
C10_MainFlow ==
    /\ fs_exists # "unchecked" =>
          photo_path = Strip(Strip(stdin[1], {" "}), {"\""})
    /\ fs_exists = "no" =>
          /\ pc = "done"
          /\ calls = <<"input_path">>
          /\ stdout = <<"File tidak ditemukan!">>
          /\ metadata = EmptyDict /\ returned = NotReturned /\ json_file = NoFile
    /\ "input_save" \in Range(calls) =>
          /\ SubSeq(calls, 1, 8) = Append(RunOrder, "input_save")
          /\ returned = PyDict(metadata)
          /\ fs_exists = "yes"
    /\ (pc = "save_to_json" \/ "save_to_json" \in Range(calls)) =>
          /\ "input_save" \in Range(calls)
          /\ Len(stdin) = 2 /\ stdin[2] \in {<<"y">>, <<"Y">>}
    /\ json_file # NoFile => "save_to_json" \in Range(calls)

\* a path typed after a quote, the answer Y, the file written
C10_Witness ==
    /\ pc = "done" /\ json_file.state = "written"
    /\ stdin[1] = <<"\"", "img">> /\ photo_path = <<"img">>
    /\ stdin[2] = <<"Y">>
    /\ calls = RunOrder \o <<"input_save", "save_to_json">>

=============================================================================
